---- MODULE Spec2Model ----
(***************************************************************************)
(* Model of ducs-bin/src/register-to-google-calendar.ts: the compilation   *)
(* of syllabus digests into weekly recurring calendar events.              *)
(*                                                                         *)
(* Strings are sequences of characters; a character is a one-element TLA+  *)
(* string.  The module text is ASCII, so each kanji of the source is       *)
(* written as one atom:                                                    *)
(*   "Sun" "Mon" "Tue" "Wed" "Thu" "Fri" "Sat"  the weekday glyphs of      *)
(*                                  dayOfWeek (line 104), in that order    *)
(*   "Hoka"                         the unscheduled sentinel (line 225)    *)
(*   "zenki", "kouki"               the two term labels of SCHEDULE        *)
(*   "tsuunen"                      a term label SCHEDULE does not hold    *)
(* A Date is its time value in minutes since the epoch (seconds and        *)
(* milliseconds are zero in every Date the program builds).  The Date      *)
(* methods setHours/setMinutes/getDay/getDate/setDate work in the local    *)
(* time zone of the process; the model takes it to be Asia/Tokyo, the zone *)
(* of the calendar the program creates (line 205) and of the term-start    *)
(* literal (line 253).                                                     *)
(***************************************************************************)
EXTENDS Integers, Sequences, FiniteSets

VARIABLES
    \* calculateCalendarFromJigen, run step by step (lines 102-177)
    j,          \* the argument j: a sequence of tokens
    mpc,        \* "map" | "reduce" | "done" | "failed"
    parsed,     \* the result of j.map(...)
    s,          \* the accumulator of reduce
    mi,         \* index (1-based) of the next element reduce visits
    merr,       \* the error thrown, or "none"
    \* setTime applied to a Date (lines 265-271)
    apc,        \* "call" | "done"
    aBase,      \* civil date of the term start
    aTime,      \* argument t
    aDow,       \* argument dow
    aDate,      \* the Date d
    \* main (lines 182-314)
    pc,         \* "auth" | "year" | "map" | "base" | "loop" | "done" | "failed"
    year,       \* schoolYear().toString()
    syllabuses, \* what readAndParseDumpedSyllabus returns
    season,     \* syllabuses[0].digest.gakki
    mapped,     \* results of the map callback so far
    courses,    \* mapped, filtered
    firstBaseDay,
    idx,        \* position of the map, then of the for loop
    inserted,   \* request bodies calendar.events.insert accepted
    persisted,
    error

mergeVars == <<j, mpc, parsed, s, mi, merr>>
anchorVars == <<apc, aBase, aTime, aDow, aDate>>
mainVars == <<pc, year, syllabuses, season, mapped, courses, firstBaseDay,
              idx, inserted, persisted, error>>
vars == <<j, mpc, parsed, s, mi, merr, apc, aBase, aTime, aDow, aDate,
          pc, year, syllabuses, season, mapped, courses, firstBaseDay,
          idx, inserted, persisted, error>>

----------------------------------------------------------------------------
\* Bounds of the model

\* longest token sequence given to calculateCalendarFromJigen (any weekdays)
MaxTokens == 2
\* longest same-weekday token sequence
MaxSameDay == 4
\* number of calendar years the anchored term starts are drawn from
AnchorYearSpan == 2
\* largest batch of syllabuses
MaxBatch == 2

----------------------------------------------------------------------------
\* Values of the JavaScript run time

Undefined == [kind |-> "undefined"]
NaN == -1
Throw(e) == [ok |-> FALSE, error |-> e]
Return(v) == [ok |-> TRUE, val |-> v]

DigitChars == <<"0", "1", "2", "3", "4", "5", "6", "7", "8", "9">>
IsDigit(c) == \E i \in 1..10 : DigitChars[i] = c
DigitVal(c) == (CHOOSE i \in 1..10 : DigitChars[i] = c) - 1

\* String.prototype.slice(from), and slice(0, 1)
SliceFrom1(str) == IF Len(str) <= 1 THEN <<>> ELSE SubSeq(str, 2, Len(str))
Slice01(str) == IF Len(str) = 0 THEN <<>> ELSE <<str[1]>>

\* String.prototype.split(sep) for a one-character separator
RECURSIVE SplitAcc(_, _, _)
SplitAcc(str, sep, cur) ==
    IF str = <<>> THEN <<cur>>
    ELSE IF Head(str) = sep THEN <<cur>> \o SplitAcc(Tail(str), sep, <<>>)
    ELSE SplitAcc(Tail(str), sep, Append(cur, Head(str)))
Split(str, sep) == SplitAcc(str, sep, <<>>)

\* String.prototype.trim (the only white space the inputs hold is " ")
RECURSIVE TrimStart(_)
TrimStart(str) ==
    IF str # <<>> /\ Head(str) = " " THEN TrimStart(Tail(str)) ELSE str
RECURSIVE TrimEnd(_)
TrimEnd(str) ==
    IF str # <<>> /\ str[Len(str)] = " "
    THEN TrimEnd(SubSeq(str, 1, Len(str) - 1)) ELSE str
Trim(str) == TrimEnd(TrimStart(str))

\* Number.parseInt on a string of the program (no sign, no white space):
\* the leading run of digits, NaN when there is none
RECURSIVE ParseDigits(_, _)
ParseDigits(str, acc) ==
    IF str = <<>> \/ ~IsDigit(Head(str)) THEN acc
    ELSE ParseDigits(Tail(str), 10 * acc + DigitVal(Head(str)))
ParseInt(str) ==
    IF str = <<>> \/ ~IsDigit(Head(str)) THEN NaN ELSE ParseDigits(str, 0)

\* Number.prototype.toString(10) of a non-negative integer
RECURSIVE ToString(_)
ToString(n) ==
    IF n < 10 THEN <<DigitChars[n + 1]>>
    ELSE ToString(n \div 10) \o <<DigitChars[(n % 10) + 1]>>

\* String.prototype.padStart(2, "0")
PadStart2(str) == IF Len(str) >= 2 THEN str ELSE <<"0">> \o str

\* Day number (days since 1970-01-01) of a civil date, as MakeDay computes
\* it: the day of the month may lie outside the month
DaysFromCivil(y, m, d) ==
    LET yy == IF m <= 2 THEN y - 1 ELSE y
        era == yy \div 400
        yoe == yy - era * 400
        mp == IF m > 2 THEN m - 3 ELSE m + 9
        doy == (153 * mp + 2) \div 5 + d - 1
        doe == yoe * 365 + yoe \div 4 - yoe \div 100 + doy
    IN era * 146097 + doe - 719468

\* Civil date of a day number
CivilFromDays(z) ==
    LET zz == z + 719468
        era == zz \div 146097
        doe == zz - era * 146097
        yoe == (doe - doe \div 1460 + doe \div 36524 - doe \div 146096) \div 365
        doy == doe - (365 * yoe + yoe \div 4 - yoe \div 100)
        mp == (5 * doy + 2) \div 153
        d == doy - (153 * mp + 2) \div 5 + 1
        m == IF mp < 10 THEN mp + 3 ELSE mp - 9
        y == yoe + era * 400 + (IF m <= 2 THEN 1 ELSE 0)
    IN [y |-> y, m |-> m, d |-> d]

\* WeekDay of a day number: 0 = Sunday; 1970-01-01 was a Thursday
WeekDay(z) == (z + 4) % 7

MinutesPerDay == 24 * 60
\* offset of Asia/Tokyo from UTC, in minutes ("+09:00")
TokyoOffset == 9 * 60
\* offset of the local time zone of the process
LocalOffset == TokyoOffset

----------------------------------------------------------------------------
\* The static tables

\* SCHEDULE (lines 58-79)
SCHEDULE ==
    [y \in {"2020", "2021"} |->
        IF y = "2020"
        THEN [zenki |-> [start |-> <<2020, 5, 7>>, end |-> <<2020, 9, 8>>],
              kouki |-> [start |-> <<2020, 10, 1>>, end |-> <<2021, 2, 18>>]]
        ELSE [zenki |-> [start |-> <<2021, 4, 8>>, end |-> <<2021, 8, 26>>],
              kouki |-> [start |-> <<2021, 10, 1>>, end |-> <<2022, 2, 18>>]]]

\* obj[key] is undefined unless key is an own property of obj
Has(obj, key) == key \in DOMAIN obj

\* isKnownYear (lines 179-180)
isKnownYear(str) == str \in DOMAIN SCHEDULE

\* the text before the date and the text after it, in the template literal
\* of recEveryWeekToYMD (lines 85-87)
RulePrefix ==
    <<"R", "R", "U", "L", "E", ":", "F", "R", "E", "Q", "=", "D", "A", "I",
      "L", "Y", ";", "I", "N", "T", "E", "R", "V", "A", "L", "=", "7", ";",
      "U", "N", "T", "I", "L", "=">>
RuleSuffix == <<"T", "1", "4", "5", "9", "5", "9", "Z">>

\* recEveryWeekToYMD without the padding of month and day
recEveryWeekToYMDNoPad(y, m, d) ==
    RulePrefix \o ToString(y) \o ToString(m) \o ToString(d) \o RuleSuffix

\* recEveryWeekToYMD (lines 84-87)
recEveryWeekToYMD(y, m, d) ==
    RulePrefix \o ToString(y) \o PadStart2(ToString(m))
        \o PadStart2(ToString(d)) \o RuleSuffix

\* calcReccurence falling back to the first term for a label it does not know
calcReccurenceDefault(y, g) ==
    LET end == IF Has(SCHEDULE[y], g) THEN SCHEDULE[y][g].end
               ELSE SCHEDULE[y]["zenki"].end
    IN Return(recEveryWeekToYMD(end[1], end[2], end[3]))

\* calcReccurence (lines 81-90); SCHEDULE[y][g] is undefined for a label g
\* the year does not hold, and reading .end of undefined throws a TypeError
calcReccurence(y, g) ==
    IF ~Has(SCHEDULE[y], g) THEN Throw([msg |-> "TypeError", token |-> <<>>])
    ELSE LET end == SCHEDULE[y][g].end
         IN Return(recEveryWeekToYMD(end[1], end[2], end[3]))

\* dayOfWeek (line 104)
dayOfWeek == <<"Sun", "Mon", "Tue", "Wed", "Thu", "Fri", "Sat">>

\* fromTimeString (lines 105-111)
fromTimeString(str) ==
    LET parts == Split(str, ":")
        times == [i \in 1..Len(parts) |-> ParseInt(parts[i])]
    IN IF Len(times) # 2 \/ \E i \in 1..Len(times) : times[i] = NaN
       THEN Throw([msg |-> "Error", token |-> str])
       ELSE Return([hours |-> times[1], minutes |-> times[2]])

\* timeSchedule (lines 112-141): keyed by the period character
timeSchedule ==
    [k \in {"1", "2", "3", "4", "5", "6", "7"} |->
        CASE k = "1" -> [start |-> fromTimeString(<<"9", ":", "0", "0">>).val,
                         end |-> fromTimeString(<<"1", "0", ":", "3", "0">>).val]
          [] k = "2" -> [start |-> fromTimeString(<<"1", "0", ":", "4", "0">>).val,
                         end |-> fromTimeString(<<"1", "2", ":", "1", "0">>).val]
          [] k = "3" -> [start |-> fromTimeString(<<"1", "3", ":", "0", "0">>).val,
                         end |-> fromTimeString(<<"1", "4", ":", "3", "0">>).val]
          [] k = "4" -> [start |-> fromTimeString(<<"1", "4", ":", "4", "0">>).val,
                         end |-> fromTimeString(<<"1", "6", ":", "1", "0">>).val]
          [] k = "5" -> [start |-> fromTimeString(<<"1", "6", ":", "1", "5">>).val,
                         end |-> fromTimeString(<<"1", "7", ":", "4", "5">>).val]
          [] k = "6" -> [start |-> fromTimeString(<<"1", "7", ":", "5", "0">>).val,
                         end |-> fromTimeString(<<"1", "9", ":", "2", "0">>).val]
          [] k = "7" -> [start |-> fromTimeString(<<"1", "9", ":", "3", "0">>).val,
                         end |-> fromTimeString(<<"2", "1", ":", "0", "0">>).val]]

----------------------------------------------------------------------------
\* calculateCalendarFromJigen (lines 102-177)

\* dayOfWeek.findIndex((v) => v == c), 0-based, -1 when nothing matches;
\* c is a string of at most one character
findIndexDay(c) ==
    IF c # <<>> /\ \E i \in 1..7 : dayOfWeek[i] = c[1]
    THEN (CHOOSE i \in 1..7 : dayOfWeek[i] = c[1]) - 1
    ELSE -1

\* timeSchedule[key] for a key of at most one character
lookupSlot(key) ==
    IF key # <<>> /\ Has(timeSchedule, key[1])
    THEN Return(timeSchedule[key[1]])
    ELSE Return(Undefined)

\* lines 146-156, given the slot and the index found
checkToken(jikanwari, slot, dow) ==
    IF slot = Undefined
    THEN Throw([msg |-> "PeriodNotFound", token |-> jikanwari])
    ELSE IF dow = -1
    THEN Throw([msg |-> "DayNotFound", token |-> jikanwari])
    ELSE Return([dayOfWeek |-> dow, start |-> slot.start, end |-> slot.end])

\* the callback of j.map (lines 143-157)
mapJikanwari(jikanwari) ==
    checkToken(jikanwari,
               lookupSlot(Slice01(SliceFrom1(jikanwari))).val,
               findIndexDay(Slice01(jikanwari)))

\* the outcome of a map whose callbacks gave r: the first callback that
\* throws ends the map
mapOutcome(r) ==
    IF \E i \in 1..Len(r) : ~r[i].ok
    THEN r[CHOOSE i \in 1..Len(r) : ~r[i].ok /\ \A k \in 1..(i - 1) : r[k].ok]
    ELSE Return([i \in 1..Len(r) |-> r[i].val])

\* j.map(...) (lines 142-157)
mapAll(jj) == mapOutcome([i \in 1..Len(jj) |-> mapJikanwari(jj[i])])

\* the test with < for <=
endsBeforeStrict(acc, cur) == acc.end.hours < cur.start.hours

\* the test reading the start of the running block for its end
endsBeforeByStart(acc, cur) == acc.start.hours <= cur.start.hours

\* the test that chooses the direction (line 161)
endsBefore(acc, cur) == acc.end.hours <= cur.start.hours

\* the callback without the weekday test
reduceStepNoDayCheck(acc, cur) ==
    IF acc.end.hours <= cur.start.hours
    THEN Return([acc EXCEPT !.end = cur.end])
    ELSE Return([acc EXCEPT !.start = cur.start])

\* the callback taking the end of the slot when it extends backward
reduceStepBackwardEnd(acc, cur) ==
    IF acc.dayOfWeek # cur.dayOfWeek
    THEN Throw([msg |-> "MixedWeekday", token |-> <<>>])
    ELSE IF acc.end.hours <= cur.start.hours
    THEN Return([acc EXCEPT !.end = cur.end])
    ELSE Return([acc EXCEPT !.start = cur.end])

\* the callback of reduce (lines 158-172)
reduceStep(acc, cur) ==
    IF acc.dayOfWeek # cur.dayOfWeek
    THEN Throw([msg |-> "MixedWeekday", token |-> <<>>])
    ELSE IF endsBefore(acc, cur)
    THEN Return([acc EXCEPT !.end = cur.end])
    ELSE Return([acc EXCEPT !.start = cur.start])

\* reduce without an initial value, from element i on; a callback that
\* throws ends it
RECURSIVE reduceFrom(_, _, _)
reduceRest(r, seq, i) == IF r.ok THEN reduceFrom(r.val, seq, i + 1) ELSE r
reduceFrom(acc, seq, i) ==
    IF i > Len(seq) THEN Return(acc)
    ELSE reduceRest(reduceStep(acc, seq[i]), seq, i)

\* lines 173-176
returnCal(r, reccurence) ==
    IF ~r.ok THEN r
    ELSE Return([dayOfWeek |-> r.val.dayOfWeek, start |-> r.val.start,
                 end |-> r.val.end, reccurence |-> reccurence])

\* lines 158-176, given the outcome of the map; reduce of an empty array
\* without an initial value throws a TypeError
reduceMapped(m, reccurence) ==
    IF ~m.ok THEN m
    ELSE IF Len(m.val) = 0
    THEN Throw([msg |-> "TypeError", token |-> <<>>])
    ELSE returnCal(reduceFrom(m.val[1], m.val, 2), reccurence)

\* the whole function
calculateCalendarFromJigen(jj, reccurence) ==
    reduceMapped(mapAll(jj), reccurence)

----------------------------------------------------------------------------
\* calculateCalendarFromJigen as a machine: the map, then one step of the
\* reduce per element, then the return

NoTime == [hours |-> 0, minutes |-> 0]
NoBlock == [dayOfWeek |-> -1, start |-> NoTime, end |-> NoTime]
NoError == [msg |-> "none", token |-> <<>>]

\* the rule the caller passes in the runs of the machine
MergeRule == calcReccurence("2021", "zenki").val

PeriodChars == {"1", "2", "3", "4", "5", "6", "7"}
\* every token of a weekday glyph and a period of the table
GoodTokens == {<<dayOfWeek[w], p>> : w \in 1..7, p \in PeriodChars}
\* tokens the map callback rejects, and one with text after the period
OddTokens ==
    {<<>>, <<"Mon">>, <<"Mon", "8">>, <<"Hoka", "1">>, <<"Hoka", "8">>,
     <<"Mon", "1", "0">>}
Tokens == GoodTokens \cup OddTokens

SeqsUpTo(S, n) == UNION {[1..k -> S] : k \in 1..n}

MergeStart(jj) ==
    /\ j = jj
    /\ mpc = "map"
    /\ parsed = <<>>
    /\ s = NoBlock
    /\ mi = 0
    /\ merr = NoError

MergeIdle == MergeStart(<<>>) 

\* lines 142-157, and the first element becoming the accumulator (line 158)
MapTokens ==
    /\ mpc = "map"
    /\ j # <<>>
    /\ LET m == mapAll(j)
       IN IF m.ok
          THEN /\ parsed' = m.val
               /\ s' = m.val[1]
               /\ mi' = 2
               /\ mpc' = "reduce"
               /\ merr' = merr
          ELSE /\ mpc' = "failed"
               /\ merr' = m.error
               /\ UNCHANGED <<parsed, s, mi>>
    /\ UNCHANGED <<j, anchorVars, mainVars>>

\* one call of the reduce callback (lines 158-172)
ReduceNext ==
    /\ mpc = "reduce"
    /\ mi <= Len(parsed)
    /\ LET r == reduceStep(s, parsed[mi])
       IN IF r.ok
          THEN /\ s' = r.val
               /\ mi' = mi + 1
               /\ UNCHANGED <<mpc, merr>>
          ELSE /\ mpc' = "failed"
               /\ merr' = r.error
               /\ UNCHANGED <<s, mi>>
    /\ UNCHANGED <<j, parsed, anchorVars, mainVars>>

\* lines 173-176
ReturnCal ==
    /\ mpc = "reduce"
    /\ mi > Len(parsed)
    /\ mpc' = "done"
    /\ s' = [dayOfWeek |-> s.dayOfWeek, start |-> s.start, end |-> s.end,
             reccurence |-> MergeRule]
    /\ UNCHANGED <<j, parsed, mi, merr, anchorVars, mainVars>>

NextMerge == MapTokens \/ ReduceNext \/ ReturnCal

----------------------------------------------------------------------------
\* Date

localDay(d) == (d + LocalOffset) \div MinutesPerDay
localMinuteOfDay(d) == (d + LocalOffset) % MinutesPerDay
fromLocal(day, minuteOfDay) == day * MinutesPerDay + minuteOfDay - LocalOffset

setHours(d, h) == fromLocal(localDay(d), h * 60 + (localMinuteOfDay(d) % 60))
setMinutes(d, m) ==
    fromLocal(localDay(d), (localMinuteOfDay(d) \div 60) * 60 + m)
getDay(d) == WeekDay(localDay(d))
getDate(d) == CivilFromDays(localDay(d)).d
setDate(d, dt) ==
    LET c == CivilFromDays(localDay(d))
    IN fromLocal(DaysFromCivil(c.y, c.m, dt), localMinuteOfDay(d))

\* toISOString: the fields of the time value in UTC
toISOString(d) ==
    LET c == CivilFromDays(d \div MinutesPerDay)
    IN [y |-> c.y, m |-> c.m, d |-> c.d,
        hours |-> (d % MinutesPerDay) \div 60, minutes |-> d % 60]

\* the template literal of lines 249-253
baseDayString(startDay) ==
    ToString(startDay[1]) \o <<"-">> \o PadStart2(ToString(startDay[2]))
        \o <<"-">> \o PadStart2(ToString(startDay[3]))
        \o <<"T", "0", "0", ":", "0", "0", ":", "0", "0", "+", "0", "9", ":",
             "0", "0">>

\* new Date(str) for a string "Y-M-DTh:m:s+H:M": the instant it names
newDate(str) ==
    LET dt == Split(str, "T")
        ymd == Split(dt[1], "-")
        tz == Split(dt[2], "+")
        hms == Split(tz[1], ":")
        off == Split(tz[2], ":")
    IN DaysFromCivil(ParseInt(ymd[1]), ParseInt(ymd[2]), ParseInt(ymd[3]))
           * MinutesPerDay
       + ParseInt(hms[1]) * 60 + ParseInt(hms[2])
       - (ParseInt(off[1]) * 60 + ParseInt(off[2]))

\* setTime with the week added also when the weekday is already reached
setTimeRollsForward(d, t, dow) ==
    LET d1 == setHours(d, t.hours)
        d2 == setMinutes(d1, t.minutes)
        diffDate == dow - getDay(d2)
    IN setDate(d2, getDate(d2) + (IF diffDate <= 0 THEN 7 ELSE 0) + diffDate)

\* setTime (lines 265-271)
setTime(d, t, dow) ==
    LET d1 == setHours(d, t.hours)
        d2 == setMinutes(d1, t.minutes)
        diffDate == dow - getDay(d2)
    IN setDate(d2, getDate(d2) + (IF diffDate < 0 THEN 7 ELSE 0) + diffDate)

----------------------------------------------------------------------------
\* setTime applied to the midnight of any term start

AnchorYears == 2020..(2020 + AnchorYearSpan - 1)
daysInMonth(y, m) == DaysFromCivil(y, m + 1, 1) - DaysFromCivil(y, m, 1)
CivilDates ==
    {<<y, m, d>> \in AnchorYears \X (1..12) \X (1..31) : d <= daysInMonth(y, m)}
SlotTimes ==
    {timeSchedule[k].start : k \in PeriodChars}
        \cup {timeSchedule[k].end : k \in PeriodChars}

AnchorStart(base, t, dow) ==
    /\ apc = "call"
    /\ aBase = base
    /\ aTime = t
    /\ aDow = dow
    /\ aDate = newDate(baseDayString(base))

AnchorIdle ==
    /\ apc = "idle"
    /\ aBase = <<1970, 1, 1>>
    /\ aTime = NoTime
    /\ aDow = 0
    /\ aDate = 0

SetTimeCall ==
    /\ apc = "call"
    /\ aDate' = setTime(aDate, aTime, aDow)
    /\ apc' = "done"
    /\ UNCHANGED <<aBase, aTime, aDow, mergeVars, mainVars>>

NextAnchor == SetTimeCall

----------------------------------------------------------------------------
\* main (lines 182-314)

\* digest["youbi-jigen"] strings of the batches
Hoka == <<"Hoka">>
JigenStrings ==
    {Hoka,
     <<"Mon", "1">>,
     <<"Thu", "2">>,
     <<"Wed", "5">>,
     <<"Mon", "3", ",", "Mon", "4">>,
     <<"Tue", "4", ",", " ", "Tue", "5">>,
     <<"Mon", "3", ",", "Tue", "4">>,
     <<"Fri", "8">>}
Gakki == {"zenki", "kouki", "tsuunen"}
Years == {"2019", "2020", "2021"}

\* a batch: the digest of the syllabus at position i has timetable code i
Digests == [youbiJigen : JigenStrings, gakki : Gakki]
Batches == {<<>>} \cup UNION {[1..n -> Digests] : n \in 1..MaxBatch}
withCodes(b) ==
    [i \in 1..Len(b) |->
        [youbiJigen |-> b[i].youbiJigen, gakki |-> b[i].gakki,
         jikanwariCode |-> i]]

\* lines 226: split(",").map((j) => j.trim())
splitJigen(str) == [i \in 1..Len(Split(str, ",")) |-> Trim(Split(str, ",")[i])]

\* lines 232-243, given the outcome of calculateCalendarFromJigen
makeCourse(syl, jigen, cal) ==
    IF ~cal.ok THEN cal
    ELSE Return([kind |-> "course",
                 youbiJigen |-> jigen,
                 gakki |-> syl.gakki,
                 jikanwariCode |-> syl.jikanwariCode,
                 calendar |-> cal.val])

\* lines 236-239, given the outcome of calcReccurence, which is evaluated
\* before calculateCalendarFromJigen is called
compileCourse(syl, jigen, rec) ==
    IF ~rec.ok THEN rec
    ELSE makeCourse(syl, jigen, calculateCalendarFromJigen(jigen, rec.val))

\* the callback of syllabuses.map (lines 223-244); pick and
\* convertSyllabusTreeToMarkdown copy text of the syllabus and are left out
mapSyllabus(y, syl) ==
    IF syl.youbiJigen = Hoka THEN Return(Undefined)
    ELSE compileCourse(syl, splitJigen(syl.youbiJigen),
                       calcReccurence(y, syl.gakki))

\* a filter that stops at the first undefined element
RECURSIVE filterUntilUndefined(_)
filterUntilUndefined(seq) ==
    IF seq = <<>> \/ Head(seq).kind = "undefined" THEN <<>>
    ELSE <<Head(seq)>> \o filterUntilUndefined(Tail(seq))

\* .filter(v => v !== undefined) (line 245)
RECURSIVE filterDefined(_)
filterDefined(seq) ==
    IF seq = <<>> THEN <<>>
    ELSE IF Head(seq).kind = "undefined" THEN filterDefined(Tail(seq))
    ELSE <<Head(seq)>> \o filterDefined(Tail(seq))

\* the request body of lines 272-295
makeEvent(base, course) ==
    [jikanwariCode |-> course.jikanwariCode,
     start |-> toISOString(setTime(base, course.calendar.start,
                                   course.calendar.dayOfWeek)),
     end |-> toISOString(setTime(base, course.calendar.end,
                                 course.calendar.dayOfWeek)),
     recurrence |-> <<course.calendar.reccurence>>]

MainStart(y, b) ==
    /\ pc = "auth"
    /\ year = y
    /\ syllabuses = withCodes(b)
    /\ season = "none"
    /\ mapped = <<>>
    /\ courses = <<>>
    /\ firstBaseDay = 0
    /\ idx = 0
    /\ inserted = <<>>
    /\ persisted = <<>>
    /\ error = NoError

MainIdle ==
    /\ pc = "idle"
    /\ year = "none"
    /\ syllabuses = <<>>
    /\ season = "none"
    /\ mapped = <<>>
    /\ courses = <<>>
    /\ firstBaseDay = 0
    /\ idx = 0
    /\ inserted = <<>>
    /\ persisted = <<>>
    /\ error = NoError

Fail(msg) ==
    /\ pc' = "failed"
    /\ error' = [msg |-> msg, token |-> <<>>]

\* lines 183-211: the authorisation and calendar.calendars.insert, which
\* answers with a calendar id or without one
CreateCalendar ==
    /\ pc = "auth"
    /\ \E id \in BOOLEAN :
         IF id THEN pc' = "year" /\ error' = error
         ELSE Fail("NoCalendarId")
    /\ UNCHANGED <<year, syllabuses, season, mapped, courses, firstBaseDay,
                   idx, inserted, persisted, mergeVars, anchorVars>>

\* lines 213-221
ReadSyllabuses ==
    /\ pc = "year"
    /\ IF ~isKnownYear(year)
       THEN Fail("UnknownYear") /\ UNCHANGED <<season, idx>>
       ELSE IF syllabuses = <<>>
       THEN Fail("TypeError") /\ UNCHANGED <<season, idx>>
       ELSE /\ season' = syllabuses[1].gakki
            /\ idx' = 1
            /\ pc' = "map"
            /\ error' = error
    /\ UNCHANGED <<year, syllabuses, mapped, courses, firstBaseDay,
                   inserted, persisted, mergeVars, anchorVars>>

\* the map callback catching what the compilation throws and going on with
\* a descriptor that has no times and no rule
MapSyllabusSwallow ==
    /\ pc = "map"
    /\ idx <= Len(syllabuses)
    /\ mapped' =
         Append(mapped,
                IF mapSyllabus(year, syllabuses[idx]).ok
                THEN mapSyllabus(year, syllabuses[idx]).val
                ELSE [kind |-> "course",
                      youbiJigen |-> <<>>,
                      gakki |-> syllabuses[idx].gakki,
                      jikanwariCode |-> syllabuses[idx].jikanwariCode,
                      calendar |-> [dayOfWeek |-> 0, start |-> NoTime,
                                    end |-> NoTime, reccurence |-> <<>>]])
    /\ idx' = idx + 1
    /\ UNCHANGED <<pc, error, year, syllabuses, season, courses,
                   firstBaseDay, inserted, persisted, mergeVars, anchorVars>>

\* one call of the map callback (lines 223-244)
MapSyllabus ==
    /\ pc = "map"
    /\ idx <= Len(syllabuses)
    /\ LET r == mapSyllabus(year, syllabuses[idx])
       IN IF r.ok
          THEN /\ mapped' = Append(mapped, r.val)
               /\ idx' = idx + 1
               /\ UNCHANGED <<pc, error>>
          ELSE /\ pc' = "failed"
               /\ error' = r.error
               /\ UNCHANGED <<mapped, idx>>
    /\ UNCHANGED <<year, syllabuses, season, courses, firstBaseDay,
                   inserted, persisted, mergeVars, anchorVars>>

\* lines 245-254: the filter, then the Date of the start of the term of
\* the first syllabus
ResolveBaseDay ==
    /\ pc = "map"
    /\ idx > Len(syllabuses)
    /\ courses' = filterDefined(mapped)
    /\ IF ~Has(SCHEDULE[year], season)
       THEN Fail("TypeError") /\ UNCHANGED <<firstBaseDay, idx>>
       ELSE /\ firstBaseDay' =
                   newDate(baseDayString(SCHEDULE[year][season].start))
            /\ idx' = 1
            /\ pc' = "loop"
            /\ error' = error
    /\ UNCHANGED <<year, syllabuses, season, mapped, inserted, persisted,
                   mergeVars, anchorVars>>

\* one turn of the for loop (lines 264-310); calendar.events.insert
\* resolves or rejects
InsertEvent ==
    /\ pc = "loop"
    /\ idx <= Len(courses)
    /\ LET event == makeEvent(firstBaseDay, courses[idx])
       IN \E accepted \in BOOLEAN :
            IF accepted
            THEN /\ inserted' = Append(inserted, event)
                 /\ persisted' =
                        Append(persisted,
                               [timetableId |-> courses[idx].jikanwariCode])
                 /\ idx' = idx + 1
                 /\ UNCHANGED <<pc, error>>
            ELSE /\ Fail("InsertRejected")
                 /\ UNCHANGED <<inserted, persisted, idx>>
    /\ UNCHANGED <<year, syllabuses, season, mapped, courses, firstBaseDay,
                   mergeVars, anchorVars>>

\* line 313
Finish ==
    /\ pc = "loop"
    /\ idx > Len(courses)
    /\ pc' = "done"
    /\ UNCHANGED <<year, syllabuses, season, mapped, courses, firstBaseDay,
                   idx, inserted, persisted, error, mergeVars, anchorVars>>

NextMain ==
    \/ CreateCalendar
    \/ ReadSyllabuses
    \/ MapSyllabus
    \/ ResolveBaseDay
    \/ InsertEvent
    \/ Finish

----------------------------------------------------------------------------
\* Specifications

\* calculateCalendarFromJigen on every token sequence up to MaxTokens
InitMerge ==
    /\ \E jj \in SeqsUpTo(Tokens, MaxTokens) : MergeStart(jj)
    /\ AnchorIdle
    /\ MainIdle
SpecMerge == InitMerge /\ [][NextMerge]_vars

\* calculateCalendarFromJigen on every sequence of up to MaxSameDay tokens
\* of one weekday and periods of the table
InitSameDay ==
    /\ \E w \in 1..7 : \E ps \in SeqsUpTo(PeriodChars, MaxSameDay) :
         MergeStart([i \in 1..Len(ps) |-> <<dayOfWeek[w], ps[i]>>])
    /\ AnchorIdle
    /\ MainIdle
SpecSameDay == InitSameDay /\ [][NextMerge]_vars

\* setTime on the midnight of every date of AnchorYears
InitAnchor ==
    /\ \E base \in CivilDates : \E t \in SlotTimes : \E dow \in 0..6 :
         AnchorStart(base, t, dow)
    /\ MergeIdle
    /\ MainIdle
SpecAnchor == InitAnchor /\ [][NextAnchor]_vars

\* main on every batch up to MaxBatch
Init ==
    /\ \E sy \in Years : \E batch \in Batches : MainStart(sy, batch)
    /\ MergeIdle
    /\ AnchorIdle
Next == NextMain
Spec == Init /\ [][Next]_vars

----------------------------------------------------------------------------
\* Properties

minutesOf(t) == t.hours * 60 + t.minutes
tokyoDay(d) == (d + TokyoOffset) \div MinutesPerDay
\* the day, in Asia/Tokyo, of an instant given by its UTC fields
tokyoDayOfFields(f) ==
    tokyoDay(DaysFromCivil(f.y, f.m, f.d) * MinutesPerDay
             + f.hours * 60 + f.minutes)
civilDay(c) == DaysFromCivil(c[1], c[2], c[3])
\* the first day on or after day z that is the weekday dow
firstOnOrAfter(z, dow) ==
    CHOOSE n \in z..(z + 6) : WeekDay(n) = dow

parses(tok) == mapJikanwari(tok).ok
weekdayOf(tok) == findIndexDay(Slice01(tok))
allParse(jj) == \A i \in 1..Len(jj) : parses(jj[i])
mixedWeekdays(jj) ==
    \E a, b \in 1..Len(jj) : weekdayOf(jj[a]) # weekdayOf(jj[b])

\* C2: when every token parses and two tokens name different weekdays, the
\* merge never returns a block: the reduce still has a token of another
\* weekday before it, and the error it ends with is the mixed-weekday one.
C2_MixedWeekdayFails ==
    (allParse(j) /\ mixedWeekdays(j)) =>
        /\ mpc # "done"
        /\ mpc = "failed" => merr.msg = "MixedWeekday"
        /\ mpc = "reduce" =>
             \E k \in mi..Len(parsed) : parsed[k].dayOfWeek # s.dayOfWeek

C2_Witness ==
    /\ allParse(j)
    /\ mixedWeekdays(j)
    /\ mpc = "failed"
    /\ merr.msg = "MixedWeekday"

\* the slot times of the bell schedule, written out
BellStart == <<<<9, 0>>, <<10, 40>>, <<13, 0>>, <<14, 40>>, <<16, 15>>,
               <<17, 50>>, <<19, 30>>>>
BellEnd == <<<<10, 30>>, <<12, 10>>, <<14, 30>>, <<16, 10>>, <<17, 45>>,
             <<19, 20>>, <<21, 0>>>>
asTime(hm) == [hours |-> hm[1], minutes |-> hm[2]]
tokenOf(w, n) == <<dayOfWeek[w + 1], DigitChars[n + 1]>>

\* C3: the two tokens [period N, period N+1] of one weekday, N in 1..6,
\* merge into a block of that weekday from the start of period N to the
\* end of period N+1, and the merge does not fail.
C3_ContiguousPair ==
    \A w \in 0..6 : \A n \in 1..6 :
        j = <<tokenOf(w, n), tokenOf(w, n + 1)>> =>
            /\ mpc # "failed"
            /\ mpc = "done" =>
                 /\ s.dayOfWeek = w
                 /\ s.start = asTime(BellStart[n])
                 /\ s.end = asTime(BellEnd[n + 1])

\* Monday 3 then Monday 4: 13:00 to 16:10
C3_Witness ==
    /\ j = <<<<"Mon", "3">>, <<"Mon", "4">>>>
    /\ mpc = "done"
    /\ s.dayOfWeek = 1
    /\ s.start = [hours |-> 13, minutes |-> 0]
    /\ s.end = [hours |-> 16, minutes |-> 10]

\* C9: for every running block the reduce reaches and every token of the
\* same weekday with a period in 1..7, the callback extends the block
\* forward (end := end of the slot) exactly when the running end, as a time
\* of day in hours and minutes, is at or before the start of the slot, and
\* backward (start := start of the slot) exactly when it is after it.
C9_DirectionByFullTime ==
    mpc = "reduce" =>
        \A n \in 1..7 :
            LET cur == mapJikanwari(tokenOf(s.dayOfWeek, n)).val
                atOrBefore == minutesOf(s.end) <= minutesOf(cur.start)
            IN /\ endsBefore(s, cur) <=> atOrBefore
               /\ reduceStep(s, cur).ok
               /\ atOrBefore =>
                    reduceStep(s, cur).val = [s EXCEPT !.end = cur.end]
               /\ ~atOrBefore =>
                    reduceStep(s, cur).val = [s EXCEPT !.start = cur.start]

\* a block already extended backward, whose end and the start of the next
\* slot lie in the same hour
C9_Witness ==
    /\ mpc = "reduce"
    /\ mi > 2
    /\ mi <= Len(parsed)
    /\ s.start # parsed[1].start
    /\ s.end.hours = parsed[mi].start.hours
    /\ s.end.minutes # parsed[mi].start.minutes

earliestStart(seq) ==
    CHOOSE t \in {seq[i].start : i \in 1..Len(seq)} :
        \A i \in 1..Len(seq) : minutesOf(t) <= minutesOf(seq[i].start)
latestEnd(seq) ==
    CHOOSE t \in {seq[i].end : i \in 1..Len(seq)} :
        \A i \in 1..Len(seq) : minutesOf(seq[i].end) <= minutesOf(t)
ascending(seq) ==
    \A i \in 1..(Len(seq) - 1) :
        minutesOf(seq[i].start) < minutesOf(seq[i + 1].start)
descending(seq) ==
    \A i \in 1..(Len(seq) - 1) :
        minutesOf(seq[i].start) > minutesOf(seq[i + 1].start)

\* C10 as claimed: for every sequence of tokens of one weekday, the merged
\* block starts at the earliest slot start and ends at the latest slot end.
C10_CoversEveryToken ==
    mpc = "done" =>
        /\ s.start = earliestStart(parsed)
        /\ s.end = latestEnd(parsed)

\* the tokens after the first that do not start after every token before
\* them
notLater(seq) ==
    {k \in 2..Len(seq) :
        \E i \in 1..(k - 1) :
            minutesOf(seq[k].start) <= minutesOf(seq[i].start)}
\* the last of them, or the first token when there is none
lastNotLater(seq) ==
    IF notLater(seq) = {} THEN 1
    ELSE CHOOSE k \in notLater(seq) : \A i \in notLater(seq) : i <= k

\* C10 as amended: the merged block always ends at the latest slot end; it
\* starts at the earliest slot start when the tokens are at most two or
\* their periods are strictly ascending or strictly descending; in every
\* order it starts at the slot start of the last token that does not start
\* after every token before it (of the first token when there is none).
C10_CoversMonotone ==
    mpc = "done" =>
        /\ s.end = latestEnd(parsed)
        /\ (Len(parsed) <= 2 \/ ascending(parsed) \/ descending(parsed)) =>
             s.start = earliestStart(parsed)
        /\ s.start = parsed[lastNotLater(parsed)].start

\* three tokens in descending order
C10_Witness ==
    /\ mpc = "done"
    /\ Len(parsed) >= 3
    /\ descending(parsed)
    /\ s.start = earliestStart(parsed)
    /\ s.start # parsed[1].start

\* the text of a rule between positions a and b, as a number
numberAt(rule, a, b) == ParseInt(SubSeq(rule, a, b))
allDigits(str) == \A i \in 1..Len(str) : IsDigit(str[i])
SecondsPerDay == 24 * 60 * 60

\* a rule "RRULE:FREQ=DAILY;INTERVAL=7;UNTIL=" YYYYMMDD "T" hhmmss "Z"
\* whose UNTIL instant is 23:59:59 of the civil date end in Asia/Tokyo
ruleEndsOn(rule, end) ==
    /\ Len(rule) = 50
    /\ SubSeq(rule, 1, 6) = <<"R", "R", "U", "L", "E", ":">>
    /\ SubSeq(rule, 7, 17)
         = <<"F", "R", "E", "Q", "=", "D", "A", "I", "L", "Y", ";">>
    /\ SubSeq(rule, 18, 28)
         = <<"I", "N", "T", "E", "R", "V", "A", "L", "=", "7", ";">>
    /\ SubSeq(rule, 29, 34) = <<"U", "N", "T", "I", "L", "=">>
    /\ allDigits(SubSeq(rule, 35, 42))
    /\ numberAt(rule, 35, 38) = end[1]
    /\ numberAt(rule, 39, 40) = end[2]
    /\ numberAt(rule, 41, 42) = end[3]
    /\ rule[43] = "T"
    /\ allDigits(SubSeq(rule, 44, 49))
    /\ rule[50] = "Z"
    /\ LET utc == civilDay(<<numberAt(rule, 35, 38), numberAt(rule, 39, 40),
                             numberAt(rule, 41, 42)>>) * SecondsPerDay
                  + numberAt(rule, 44, 45) * 3600
                  + numberAt(rule, 46, 47) * 60
                  + numberAt(rule, 48, 49)
           tokyo == utc + TokyoOffset * 60
       IN /\ tokyo \div SecondsPerDay = civilDay(end)
          /\ tokyo % SecondsPerDay = SecondsPerDay - 1

isCourse(i) == i <= Len(mapped) /\ mapped[i].kind = "course"

\* C4: for every configured year and term, the rule calcReccurence gives a
\* compiled course repeats every 7 days and its UNTIL is the end date of
\* the course's term as zero-padded YYYYMMDD followed by T145959Z, the UTC
\* instant of 23:59:59 of that date in Asia/Tokyo.
C4_RuleUntilEndOfDay ==
    \A i \in 1..Len(mapped) :
        isCourse(i) =>
            /\ ruleEndsOn(mapped[i].calendar.reccurence,
                          SCHEDULE[year][mapped[i].gakki].end)
            /\ SubSeq(mapped[i].calendar.reccurence, 43, 50)
                 = <<"T", "1", "4", "5", "9", "5", "9", "Z">>

\* a course of the first term of 2021: the date part is 20210826
C4_Witness ==
    /\ year = "2021"
    /\ isCourse(1)
    /\ mapped[1].gakki = "zenki"
    /\ SubSeq(mapped[1].calendar.reccurence, 35, 42)
         = <<"2", "0", "2", "1", "0", "8", "2", "6">>

isSentinel(i) == syllabuses[i].youbiJigen = Hoka
codesOf(seq) == [i \in 1..Len(seq) |-> seq[i].jikanwariCode]
RECURSIVE nonSentinelCodes(_)
nonSentinelCodes(seq) ==
    IF seq = <<>> THEN <<>>
    ELSE IF Head(seq).youbiJigen = Hoka THEN nonSentinelCodes(Tail(seq))
    ELSE <<Head(seq).jikanwariCode>> \o nonSentinelCodes(Tail(seq))
isPrefix(a, b) == Len(a) <= Len(b) /\ a = SubSeq(b, 1, Len(a))

\* the part of C5 about the sentinel: it is neither compiled nor inserted
sentinelLeftOut ==
    /\ \A i \in 1..Len(mapped) : isSentinel(i) => mapped[i].kind = "undefined"
    /\ \A k \in 1..Len(inserted) : ~isSentinel(inserted[k].jikanwariCode)

\* a run that ended for a reason other than the calendar service or the year
endedOnTheBatch ==
    /\ pc \in {"done", "failed"}
    /\ error.msg \notin {"NoCalendarId", "InsertRejected", "UnknownYear"}

\* C5 as claimed: a sentinel course is never compiled and never inserted,
\* and the inserted events are exactly the non-sentinel courses of the
\* batch, one event per course.
C5_ExactlyNonSentinel ==
    /\ sentinelLeftOut
    /\ endedOnTheBatch =>
         codesOf(inserted) = nonSentinelCodes(syllabuses)

\* C5 as amended: a sentinel course is never compiled and never inserted;
\* the inserted events are, one per course and in batch order, a prefix of
\* the non-sentinel courses, and all of them when the run completes
\* without an error.
C5_NonSentinelWhenDone ==
    /\ sentinelLeftOut
    /\ isPrefix(codesOf(inserted), nonSentinelCodes(syllabuses))
    /\ pc = "done" => codesOf(inserted) = nonSentinelCodes(syllabuses)

\* a completed run of a batch that holds a sentinel course before another
C5_Witness ==
    /\ pc = "done"
    /\ Len(syllabuses) = 2
    /\ isSentinel(1)
    /\ codesOf(inserted) = <<2>>

compiles(i) == mapSyllabus(year, syllabuses[i]).ok

\* C6: an event reaches calendar.events.insert only for a course whose
\* compilation ended without an error, and it is the whole descriptor of
\* that course: a course whose compilation throws yields no insert.
C6_InsertOnlyCompiled ==
    \A k \in 1..Len(inserted) :
        LET i == inserted[k].jikanwariCode
        IN /\ isKnownYear(year)
           /\ ~isSentinel(i)
           /\ compiles(i)
           /\ inserted[k] =
                makeEvent(firstBaseDay, mapSyllabus(year, syllabuses[i]).val)

\* a run in which one course compiled and a later one threw
C6_Witness ==
    /\ pc = "failed"
    /\ error.msg = "MixedWeekday"
    /\ Len(mapped) = 1
    /\ isCourse(1)
    /\ inserted = <<>>

unknownLabel(i) == ~Has(SCHEDULE[year], syllabuses[i].gakki)

\* C7: a lookup for a year SCHEDULE does not hold, or for a term label the
\* year does not hold, ends the run with an error; no other dates stand in
\* for the missing ones, and nothing is compiled or inserted from it.
C7_LookupFails ==
    /\ ~isKnownYear(year) =>
         /\ mapped = <<>>
         /\ inserted = <<>>
         /\ pc \in {"auth", "year", "failed"}
         /\ pc = "failed" => error.msg \in {"NoCalendarId", "UnknownYear"}
    /\ isKnownYear(year) =>
         /\ \A i \in 1..Len(syllabuses) :
              (unknownLabel(i) /\ ~isSentinel(i)) =>
                  /\ Len(mapped) < i
                  /\ inserted = <<>>
                  /\ pc \notin {"loop", "done"}
                  /\ (pc = "failed" /\ idx = i) => error.msg = "TypeError"
         /\ (syllabuses # <<>> /\ unknownLabel(1)) =>
              /\ inserted = <<>>
              /\ pc \notin {"loop", "done"}

\* a run of a known year that compiled a course and then threw on the
\* unknown term label of the next
C7_Witness ==
    /\ isKnownYear(year)
    /\ pc = "failed"
    /\ error.msg = "TypeError"
    /\ idx = 2
    /\ Len(mapped) = 1
    /\ isCourse(1)
    /\ unknownLabel(2)

\* C8: every inserted event starts and ends on the first date, on or after
\* the start of the term of its own course, that falls on the weekday of
\* the block; that term is the one whose end date is in the event's rule.
C8_AnchoredToOwnTerm ==
    \A k \in 1..Len(inserted) :
        LET syl == syllabuses[inserted[k].jikanwariCode]
            term == SCHEDULE[year][syl.gakki]
            day == firstOnOrAfter(civilDay(term.start),
                                  courses[k].calendar.dayOfWeek)
        IN /\ ruleEndsOn(inserted[k].recurrence[1], term.end)
           /\ tokyoDayOfFields(inserted[k].start) = day
           /\ tokyoDayOfFields(inserted[k].end) = day

====
